---- MODULE Spec2Model ----
(***************************************************************************)
(* Model of src/services.py: discovery of "-service" task definition       *)
(* families in an ECS cluster and registration of their host address in    *)
(* the Route53 private zone of the VPC.                                     *)
(*                                                                         *)
(* One run of update_services is the state machine                         *)
(*   "fetch"    the while loop of get_task_definition_families             *)
(*   "families" the for loop of get_info                                   *)
(*   "upsert"   the for loop of update_services                            *)
(*   "done"     update_services returned                                   *)
(*   "raised"   an exception left update_services (no try/except exists)   *)
(* The AWS side (ECS listing, ECS/EC2 descriptions, hosted zones, record   *)
(* sets) is the environment: chosen in Init, read by the calls.            *)
(***************************************************************************)
EXTENDS Integers, Sequences, FiniteSets, TLC

VARIABLES
    pages,          \* ECS: the family listing, as the pages the API serves
    ecs,            \* ECS/EC2: per family, what the describe calls answer
    hostedZones,    \* Route53: the hosted zones, in list_hosted_zones order
    records,        \* Route53: the resource record sets of the zones
    service_names,  \* argument of update_services
    pc,             \* position of the run
    next_token,     \* get_task_definition_families: next_token
    arns,           \* get_task_definition_families: arns
    i,              \* get_info: index of the family the for loop is at
    info,           \* get_info: _info
    j,              \* update_services: index of the service the loop is at
    raisedBy,       \* the exception that ended the run, "none" if none
    requested,      \* history: nextToken sent with each listing request
    taskLookups,    \* history: families ecs.list_tasks was called for
    chainLookups,   \* history: families ecs.describe_tasks was called for
    zoneCalls,      \* history: vpc ids get_zone_for_vpc was called with
    upserts,        \* history: change batches sent to Route53, with outcome
    run,            \* number of the current invocation of update_services
    prevInfo,       \* snapshot of the previous invocation that returned
    prevRecords,    \* record sets when the previous invocation returned
    prevDone        \* whether a previous invocation has returned

envVars  == <<pages, ecs, hostedZones, service_names>>
progVars == <<pc, next_token, arns, i, info, j, raisedBy>>
histVars == <<requested, taskLookups, chainLookups, zoneCalls, upserts>>
runVars  == <<run, prevInfo, prevRecords, prevDone>>
vars     == <<envVars, records, progVars, histVars, runVars>>

----------------------------------------------------------------------------
(* Bounds of the model *)

\* iterations of the listing loop that are explored
MaxFetches == 3
\* largest page size the listing is cut into
MaxPageSize == 3
\* invocations of update_services in a row (SpecRerun)
MaxRuns == 2

----------------------------------------------------------------------------
(* Python values *)

None       == [kind |-> "None"]
IndexError == [kind |-> "IndexError"]
ParamValidationError == [kind |-> "ParamValidationError"]
Raised(v)  == v \in {IndexError, ParamValidationError}
EmptyToken == 0         \* next_token = ''
NoToken    == -1        \* next_token = None

\* s[-n:]
SliceLast(s, n) == IF Len(s) <= n THEN s ELSE SubSeq(s, Len(s) - n + 1, Len(s))
\* s[:-n]
SliceButLast(s, n) == IF Len(s) <= n THEN "" ELSE SubSeq(s, 1, Len(s) - n)

\* d.update(u) for dictionaries as functions from keys
DictUpdate(d, u) == u @@ d

----------------------------------------------------------------------------
(* The environment: what the AWS APIs can answer *)

Cluster == "Default"

FamilyNames == {"cache-service", "web-service", "worker-batch"}

\* sequences over S without repetition
RECURSIVE Arrangements(_)
Arrangements(S) ==
    IF S = {} THEN {<<>>}
    ELSE LET shorter == UNION {Arrangements(S \ {x}) : x \in S}
         IN  shorter \cup UNION {{<<x>> \o t : t \in Arrangements(S \ {x})} : x \in S}

\* a listing names each family once
Listings == Arrangements(FamilyNames)

\* the listing l cut into pages of k families; an empty listing is one empty page
RECURSIVE Paginate(_, _)
Paginate(l, k) ==
    IF Len(l) <= k THEN <<l>>
    ELSE <<SubSeq(l, 1, k)>> \o Paginate(SubSeq(l, k + 1, Len(l)), k)

Paginations == {Paginate(l, k) : l \in Listings, k \in 1..MaxPageSize}

RECURSIVE Flatten(_)
Flatten(ps) == IF ps = <<>> THEN <<>> ELSE Head(ps) \o Flatten(Tail(ps))

\* ARNs and ids, named after the family whose task they belong to
TaskArn(f)              == [kind |-> "task", family |-> f]
ContainerInstanceArn(f) == [kind |-> "container-instance", family |-> f]
Ec2InstanceId(f)        == [kind |-> "instance", family |-> f]

\* primary network interfaces of the EC2 instances of the cluster
NetworkInterfaces ==
    { [PrivateIpAddress |-> "10.0.1.5", VpcId |-> "vpc-123"],
      [PrivateIpAddress |-> "10.0.2.7", VpcId |-> "vpc-456"] }

\* What ECS and EC2 answer along the chain of one family:
\*   taskArns            list_tasks(...)['taskArns']
\*   tasks               describe_tasks(...)['tasks']
\*   containerInstances  describe_container_instances(...)['containerInstances']
\*   interfaces          the NetworkInterfaces of the described instance
\* An answer can be empty at any hop; the later hops are then not asked.
Chain(ta, t, ci, ni) ==
    [taskArns |-> ta, tasks |-> t, containerInstances |-> ci, interfaces |-> ni]

ChainStates(f) ==
    { Chain(<<>>, <<>>, <<>>, <<>>),
      Chain(<<TaskArn(f)>>, <<>>, <<>>, <<>>),
      Chain(<<TaskArn(f)>>, <<[containerInstanceArn |-> ContainerInstanceArn(f)]>>,
            <<>>, <<>>),
      Chain(<<TaskArn(f)>>, <<[containerInstanceArn |-> ContainerInstanceArn(f)]>>,
            <<[ec2InstanceId |-> Ec2InstanceId(f)]>>, <<>>) }
    \cup
    { Chain(<<TaskArn(f)>>, <<[containerInstanceArn |-> ContainerInstanceArn(f)]>>,
            <<[ec2InstanceId |-> Ec2InstanceId(f)]>>, <<ni>>) : ni \in NetworkInterfaces }

\* hosted zones: VPCs = <<>> stands for a detail without the 'VPCs' key
Zone(id, name, vpcs) == [Id |-> id, Name |-> name, VPCs |-> vpcs]

HostedZoneLists ==
    { <<>>,
      <<Zone("/hostedzone/Z1", "internal.", <<"vpc-123">>)>>,
      <<Zone("/hostedzone/Z0", "example.com.", <<>>),
        Zone("/hostedzone/Z1", "internal.", <<"vpc-456", "vpc-123">>)>>,
      <<Zone("/hostedzone/Z1", "internal.", <<"vpc-123">>),
        Zone("/hostedzone/Z2", "corp.", <<"vpc-123">>)>> }

FilterSets == { {}, {"cache"}, {"web-service"} }

\* a resource record set
RRSet(name, type, ttl, values) ==
    [Name |-> name, Type |-> type, TTL |-> ttl, ResourceRecords |-> values]

InitialRecordSets ==
    { {},
      { [HostedZoneId |-> "/hostedzone/Z1",
         ResourceRecordSet |-> RRSet("cache.internal.", "A", 300, <<"10.9.9.9">>)] } }

----------------------------------------------------------------------------
(* The functions of services.py *)

\* the boto3 call of get_task_definition_families: ecs.list_task_definition_families()
\* is sent without a nextToken, whatever next_token holds
FamiliesRequestToken(token) == EmptyToken

\* ECS list_task_definition_families: the page after the one `token` came with
\* (the first page for an empty token), with a nextToken unless it is the last
ListTaskDefinitionFamilies(token) ==
    [families  |-> pages[token + 1],
     nextToken |-> IF token + 1 < Len(pages) THEN token + 1 ELSE NoToken]

\* the comparison of line 130 the other way round
IsService_Inverted(family) == SliceLast(family, 8) # "-service"

\* family[-8:] == '-service'
IsService(family) == SliceLast(family, 8) = "-service"

\* name = family[:-8]
ServiceName(family) == SliceButLast(family, 8)

get_task_arn(family) ==
    LET taskArns == ecs[family].taskArns
    IN  IF Len(taskArns) = 0 THEN None ELSE taskArns[1]

\* the check of line 135 left out
NotRunning_Never(service_arn) == FALSE

\* if not service_arn: continue
NotRunning(service_arn) == service_arn = None

get_task_container_instance_arn(task_arn) ==
    IF task_arn = None THEN ParamValidationError      \* tasks=[None] is refused
    ELSE LET tasks == ecs[task_arn.family].tasks
         IN  IF Len(tasks) = 0 THEN IndexError ELSE tasks[1].containerInstanceArn

get_container_instance_ec2_id(container_instance_arn) ==
    LET cis == ecs[container_instance_arn.family].containerInstances
    IN  IF Len(cis) = 0 THEN IndexError ELSE cis[1].ec2InstanceId

get_ec2_instance(ec2_instance_id) ==
    LET nis == ecs[ec2_instance_id.family].interfaces
    IN  IF Len(nis) = 0 THEN IndexError ELSE nis[1]

\* lines 141-143: the network interface, or IndexError from the hop that raised
ResolveInstance(service_arn) ==
    LET ci == get_task_container_instance_arn(service_arn)
    IN  IF Raised(ci) THEN ci
        ELSE LET id == get_container_instance_ec2_id(ci)
             IN  IF Raised(id) THEN id ELSE get_ec2_instance(id)

\* the loop without the comparison with vpc_id: the first private zone is taken
ZoneSearch_AnyVpc(zones, vpc_id) ==
    IF \E k \in 1..Len(zones) : Len(zones[k].VPCs) > 0
    THEN LET k == CHOOSE n \in 1..Len(zones) :
                      /\ Len(zones[n].VPCs) > 0
                      /\ \A m \in 1..(n - 1) : Len(zones[m].VPCs) = 0
         IN  [zone_id |-> zones[k].Id, zone_name |-> zones[k].Name]
    ELSE None

\* the for loop of get_zone_for_vpc over the zones left; None when it falls through
RECURSIVE ZoneSearch(_, _)
ZoneSearch(zones, vpc_id) ==
    IF zones = <<>> THEN None
    ELSE LET zone == Head(zones)
         IN  IF Len(zone.VPCs) > 0 /\ zone.VPCs[1] = vpc_id
             THEN [zone_id |-> zone.Id, zone_name |-> zone.Name]
             ELSE ZoneSearch(Tail(zones), vpc_id)

\* an empty dictionary instead of None when no zone matches
get_zone_for_vpc_EmptyDict(vpc_id) ==
    IF \E k \in 1..Len(hostedZones) :
           Len(hostedZones[k].VPCs) > 0 /\ hostedZones[k].VPCs[1] = vpc_id
    THEN LET k == CHOOSE n \in 1..Len(hostedZones) :
                      /\ Len(hostedZones[n].VPCs) > 0 /\ hostedZones[n].VPCs[1] = vpc_id
                      /\ \A m \in 1..(n - 1) :
                             ~(Len(hostedZones[m].VPCs) > 0 /\ hostedZones[m].VPCs[1] = vpc_id)
         IN  [zone_id |-> hostedZones[k].Id, zone_name |-> hostedZones[k].Name]
    ELSE <<>>

get_zone_for_vpc(vpc_id) == ZoneSearch(hostedZones, vpc_id)

\* the zone is looked up again for every service
NeedsZone_Always(network) == TRUE

\* if 'vpc_id' not in _info['network']
NeedsZone(network) == "vpc_id" \notin DOMAIN network

\* the record built from locals() at line 145
ServiceRecord(family, service_arn, ec2_instance) ==
    [family |-> family,
     name |-> ServiceName(family),
     service_arn |-> service_arn,
     ec2_instance |-> ec2_instance,
     container_instance_private_ip |-> ec2_instance.PrivateIpAddress]

TTL == 20

\* the ChangeBatch of dns(): one UPSERT of an A record
ChangeRequest(zone_id, zone_name, service_name, service_ip) ==
    [HostedZoneId |-> zone_id,
     Action |-> "UPSERT",
     ResourceRecordSet |->
         RRSet(service_name \o "." \o zone_name, "A", TTL, <<service_ip>>)]

\* a record set as Route53 holds it, in its zone
Stored(zone_id, rrset) == [HostedZoneId |-> zone_id, ResourceRecordSet |-> rrset]

\* the value is added to the record set of that name instead of replacing it
Upsert_Append(stored, request) ==
    LET new  == request.ResourceRecordSet
        same == {r \in stored : /\ r.HostedZoneId = request.HostedZoneId
                                /\ r.ResourceRecordSet.Name = new.Name
                                /\ r.ResourceRecordSet.Type = new.Type}
    IN  IF same = {} THEN stored \cup {Stored(request.HostedZoneId, new)}
        ELSE (stored \ same) \cup
             { Stored(r.HostedZoneId,
                      [r.ResourceRecordSet EXCEPT
                          !.ResourceRecords = @ \o new.ResourceRecords]) : r \in same }

\* Route53 UPSERT: the record set of that zone, name and type is created or replaced
Upsert(stored, request) ==
    LET new == request.ResourceRecordSet
    IN  {r \in stored : ~(/\ r.HostedZoneId = request.HostedZoneId
                           /\ r.ResourceRecordSet.Name = new.Name
                           /\ r.ResourceRecordSet.Type = new.Type)}
        \cup {Stored(request.HostedZoneId, new)}

\* the filter without the test of the family
PassesFilter_NameOnly(service, names) ==
    ~(names # {} /\ service.name \notin names)

\* the filter of update_services lines 187-190: TRUE when the service is written
PassesFilter(service, names) ==
    ~(names # {} /\ service.family \notin names /\ service.name \notin names)

----------------------------------------------------------------------------
(* Initial states *)

\* the state a call of update_services starts in
Entry ==
    /\ pc = "fetch"
    /\ next_token = EmptyToken
    /\ arns = <<>>
    /\ i = 1
    /\ info = [services |-> <<>>, network |-> [cluster |-> Cluster]]
    /\ j = 1
    /\ raisedBy = "none"
    /\ requested = <<>>
    /\ taskLookups = <<>>
    /\ chainLookups = <<>>
    /\ zoneCalls = <<>>
    /\ upserts = <<>>

\* a family whose task runs on the instance at 10.0.1.5
RunningElsewhere(f) ==
    Chain(<<TaskArn(f)>>, <<[containerInstanceArn |-> ContainerInstanceArn(f)]>>,
          <<[ec2InstanceId |-> Ec2InstanceId(f)]>>,
          <<[PrivateIpAddress |-> "10.0.1.5", VpcId |-> "vpc-123"]>>)

\* families that are not listed have no task; a listed family that is not a
\* service has one running (the code never asks about it)
EcsStates ==
    { e \in [FamilyNames -> UNION {ChainStates(f) : f \in FamilyNames}] :
        \A f \in FamilyNames : e[f] \in ChainStates(f) }

Listed(ps) == {Flatten(ps)[k] : k \in 1..Len(Flatten(ps))}

Init ==
    /\ pages \in Paginations
    /\ ecs \in EcsStates
    /\ \A f \in FamilyNames :
          IF f \notin Listed(pages)
          THEN ecs[f].taskArns = <<>>
          ELSE IsService(f) \/ ecs[f] = RunningElsewhere(f)
    /\ hostedZones \in HostedZoneLists
    /\ records \in InitialRecordSets
    /\ service_names \in FilterSets
    /\ Entry
    /\ run = 1
    /\ prevInfo = [services |-> <<>>, network |-> [cluster |-> Cluster]]
    /\ prevRecords = {}
    /\ prevDone = FALSE

----------------------------------------------------------------------------
(* get_task_definition_families *)

\* one iteration of the while loop (lines 59-65); the return when it ends
ListFamiliesPage ==
    /\ pc = "fetch"
    /\ next_token # NoToken
    /\ Len(requested) < MaxFetches
    /\ LET token  == FamiliesRequestToken(next_token)
           detail == ListTaskDefinitionFamilies(token)
       IN  /\ requested' = Append(requested, token)
           /\ arns' = arns \o detail.families
           /\ next_token' = detail.nextToken
           /\ pc' = IF detail.nextToken = NoToken THEN "families" ELSE "fetch"
    /\ UNCHANGED <<envVars, records, i, info, j, raisedBy, runVars>>
    /\ UNCHANGED <<taskLookups, chainLookups, zoneCalls, upserts>>

----------------------------------------------------------------------------
(* get_info: one iteration of the for loop over _families *)

AtFamily == pc = "families" /\ i <= Len(arns)

\* lines 130-132
NonService ==
    /\ AtFamily
    /\ ~IsService(arns[i])
    /\ i' = i + 1
    /\ UNCHANGED <<envVars, records, pc, next_token, arns, info, j, raisedBy>>
    /\ UNCHANGED <<histVars, runVars>>

\* lines 134-138
SkipNotRunning ==
    /\ AtFamily
    /\ IsService(arns[i])
    /\ NotRunning(get_task_arn(arns[i]))
    /\ taskLookups' = Append(taskLookups, arns[i])
    /\ i' = i + 1
    /\ UNCHANGED <<envVars, records, pc, next_token, arns, info, j, raisedBy>>
    /\ UNCHANGED <<requested, chainLookups, zoneCalls, upserts, runVars>>

\* lines 141-143 when a hop raises: nothing catches it
ResolutionRaises ==
    /\ AtFamily
    /\ IsService(arns[i])
    /\ LET service_arn == get_task_arn(arns[i])
       IN  /\ ~NotRunning(service_arn)
           /\ Raised(ResolveInstance(service_arn))
           /\ raisedBy' = ResolveInstance(service_arn).kind
    /\ taskLookups' = Append(taskLookups, arns[i])
    /\ chainLookups' = Append(chainLookups, arns[i])
    /\ pc' = "raised"
    /\ UNCHANGED <<envVars, records, next_token, arns, i, info, j>>
    /\ UNCHANGED <<requested, zoneCalls, upserts, runVars>>

\* the service of the family the loop is at, when its chain resolves
Resolves ==
    /\ AtFamily
    /\ IsService(arns[i])
    /\ ~NotRunning(get_task_arn(arns[i]))
    /\ ~Raised(ResolveInstance(get_task_arn(arns[i])))

ResolvedService ==
    LET service_arn == get_task_arn(arns[i])
    IN  ServiceRecord(arns[i], service_arn, ResolveInstance(service_arn))

\* lines 139-150, first resolved service, a zone is found for its VPC
ResolvedWithZone ==
    /\ Resolves
    /\ NeedsZone(info.network)
    /\ LET vpc_id == ResolvedService.ec2_instance.VpcId
           zone   == get_zone_for_vpc(vpc_id)
       IN  /\ zone # None
           /\ zoneCalls' = Append(zoneCalls, vpc_id)
           /\ info' = [services |-> Append(info.services, ResolvedService),
                       network  |-> DictUpdate(DictUpdate(info.network, zone),
                                               "vpc_id" :> vpc_id)]
    /\ taskLookups' = Append(taskLookups, arns[i])
    /\ chainLookups' = Append(chainLookups, arns[i])
    /\ i' = i + 1
    /\ UNCHANGED <<envVars, records, pc, next_token, arns, j, raisedBy>>
    /\ UNCHANGED <<requested, upserts, runVars>>

\* lines 139-149, first resolved service, get_zone_for_vpc returns None:
\* dict.update(None) raises TypeError
ZoneNotFound ==
    /\ Resolves
    /\ NeedsZone(info.network)
    /\ LET vpc_id == ResolvedService.ec2_instance.VpcId
       IN  /\ get_zone_for_vpc(vpc_id) = None
           /\ zoneCalls' = Append(zoneCalls, vpc_id)
    /\ info' = [info EXCEPT !.services = Append(@, ResolvedService)]
    /\ taskLookups' = Append(taskLookups, arns[i])
    /\ chainLookups' = Append(chainLookups, arns[i])
    /\ pc' = "raised"
    /\ raisedBy' = "TypeError"
    /\ UNCHANGED <<envVars, records, next_token, arns, i, j>>
    /\ UNCHANGED <<requested, upserts, runVars>>

\* lines 139-148, a later resolved service: the network is already known
ResolvedLater ==
    /\ Resolves
    /\ ~NeedsZone(info.network)
    /\ info' = [info EXCEPT !.services = Append(@, ResolvedService)]
    /\ taskLookups' = Append(taskLookups, arns[i])
    /\ chainLookups' = Append(chainLookups, arns[i])
    /\ i' = i + 1
    /\ UNCHANGED <<envVars, records, pc, next_token, arns, j, raisedBy>>
    /\ UNCHANGED <<requested, zoneCalls, upserts, runVars>>

\* line 151, and line 185 receiving the snapshot
ReturnInfo ==
    /\ pc = "families"
    /\ i > Len(arns)
    /\ pc' = "upsert"
    /\ UNCHANGED <<envVars, records, next_token, arns, i, info, j, raisedBy>>
    /\ UNCHANGED <<histVars, runVars>>

----------------------------------------------------------------------------
(* update_services: one iteration of the for loop over info['services'] *)

AtService == pc = "upsert" /\ j <= Len(info.services)

\* lines 187-190
SkipFiltered ==
    /\ AtService
    /\ ~PassesFilter(info.services[j], service_names)
    /\ j' = j + 1
    /\ UNCHANGED <<envVars, records, pc, next_token, arns, i, info, raisedBy>>
    /\ UNCHANGED <<histVars, runVars>>

\* the arguments of dns() at lines 195-196 are there to read
ZoneKnown == {"zone_id", "zone_name"} \subseteq DOMAIN info.network

DnsRequest ==
    ChangeRequest(info.network.zone_id, info.network.zone_name,
                  info.services[j].name,
                  info.services[j].container_instance_private_ip)

\* lines 191-196, Route53 accepts the change
UpsertSucceeds ==
    /\ AtService
    /\ PassesFilter(info.services[j], service_names)
    /\ ZoneKnown
    /\ upserts' = Append(upserts, [request |-> DnsRequest, ok |-> TRUE])
    /\ records' = Upsert(records, DnsRequest)
    /\ j' = j + 1
    /\ UNCHANGED <<envVars, pc, next_token, arns, i, info, raisedBy>>
    /\ UNCHANGED <<requested, taskLookups, chainLookups, zoneCalls, runVars>>

\* lines 191-196, the call raises (Route53 refuses the change, or a key of
\* info['network'] is missing): nothing catches it
UpsertRaises ==
    /\ AtService
    /\ PassesFilter(info.services[j], service_names)
    /\ IF ZoneKnown
       THEN /\ upserts' = Append(upserts, [request |-> DnsRequest, ok |-> FALSE])
            /\ raisedBy' = "ClientError"
       ELSE /\ upserts' = upserts
            /\ raisedBy' = "KeyError"
    /\ pc' = "raised"
    /\ UNCHANGED <<envVars, records, next_token, arns, i, info, j>>
    /\ UNCHANGED <<requested, taskLookups, chainLookups, zoneCalls, runVars>>

\* the loop is over: update_services returns
ReturnUpdate ==
    /\ pc = "upsert"
    /\ j > Len(info.services)
    /\ pc' = "done"
    /\ UNCHANGED <<envVars, records, next_token, arns, i, info, j, raisedBy>>
    /\ UNCHANGED <<histVars, runVars>>

----------------------------------------------------------------------------
(* Specifications *)

Next ==
    \/ ListFamiliesPage
    \/ NonService
    \/ SkipNotRunning
    \/ ResolutionRaises
    \/ ResolvedWithZone
    \/ ZoneNotFound
    \/ ResolvedLater
    \/ ReturnInfo
    \/ SkipFiltered
    \/ UpsertSucceeds
    \/ UpsertRaises
    \/ ReturnUpdate

\* one invocation of update_services
Spec == Init /\ [][Next]_vars

\* the next invocation (cli run again by a scheduler): the cluster, the zones
\* and the arguments are the same, Route53 keeps the records it was given
Rerun ==
    /\ pc \in {"done", "raised"}
    /\ run < MaxRuns
    /\ pc' = "fetch"
    /\ next_token' = EmptyToken
    /\ arns' = <<>>
    /\ i' = 1
    /\ info' = [services |-> <<>>, network |-> [cluster |-> Cluster]]
    /\ j' = 1
    /\ raisedBy' = "none"
    /\ requested' = <<>>
    /\ taskLookups' = <<>>
    /\ chainLookups' = <<>>
    /\ zoneCalls' = <<>>
    /\ upserts' = <<>>
    /\ run' = run + 1
    /\ prevDone' = (pc = "done")
    /\ prevInfo' = info
    /\ prevRecords' = records
    /\ UNCHANGED <<envVars, records>>

NextRerun == Next \/ Rerun

\* invocations in a row
SpecRerun == Init /\ [][NextRerun]_vars

----------------------------------------------------------------------------
(* Vocabulary of the properties, stated apart from the functions above *)

Suffix == "-service"

EndsWithSuffix(f) == \E k \in 0..Len(f) : SubSeq(f, k + 1, Len(f)) = Suffix

Range(seq) == {seq[k] : k \in 1..Len(seq)}

SnapshotFamilies == {info.services[k].family : k \in 1..Len(info.services)}

\* the environment has no task for the family
HasNoTask(f) == ecs[f].taskArns = <<>>

\* the environment answers every hop of the family's chain
ChainAnswers(f) ==
    /\ ecs[f].taskArns # <<>>
    /\ ecs[f].tasks # <<>>
    /\ ecs[f].containerInstances # <<>>
    /\ ecs[f].interfaces # <<>>

\* a hop of the family's chain has no answer although a task runs
ChainBroken(f) == ~HasNoTask(f) /\ ~ChainAnswers(f)

\* get_info has handed its snapshot to update_services
InfoReturned ==
    \/ pc \in {"upsert", "done"}
    \/ pc = "raised" /\ raisedBy \in {"ClientError", "KeyError"}

\* some hosted zone lists the VPC among its associations
ZoneAssociated(vpc_id) ==
    \E z \in Range(hostedZones) : vpc_id \in Range(z.VPCs)

----------------------------------------------------------------------------
(* C1 *)

\* C1: the listing loop follows the continuation tokens: request k carries the
\* token page k-1 came with (none for the first), so after k requests arns
\* holds the families of the first k pages, each once; the loop needs no more
\* requests than there are pages and, once left, arns is the whole listing.
C1_ListingFollowsTokens ==
    /\ \A k \in 1..Len(requested) :
          requested[k] = (IF k = 1 THEN EmptyToken ELSE k - 1)
    /\ Len(requested) <= Len(pages)
    /\ arns = Flatten(SubSeq(pages, 1, Len(requested)))
    /\ pc # "fetch" => arns = Flatten(pages)

----------------------------------------------------------------------------
(* C2 *)

\* C2: a family whose chain lookup failed is left out and the loop goes on to
\* the next family: once the chain of family k was asked and had no answer,
\* the run is not ended by that failure and the loop is past k.
C2_ResolutionFailureIsolated ==
    \A k \in 1..Len(arns) :
        (arns[k] \in Range(chainLookups) /\ ChainBroken(arns[k]))
            => /\ ~(pc = "raised" /\ raisedBy \in {"IndexError", "ParamValidationError"})
               /\ i > k
               /\ arns[k] \notin SnapshotFamilies

----------------------------------------------------------------------------
(* C3 *)

\* C3: a refused upsert does not end the loop of update_services: whenever an
\* upsert was refused, the run has not been ended by an exception, so the
\* later services are still written.
C3_UpsertFailureIsolated ==
    \A k \in 1..Len(upserts) :
        ~upserts[k].ok => pc # "raised"

----------------------------------------------------------------------------
(* C4 *)

\* C4: a snapshot that get_info returned with at least one service holds
\* zone_id, zone_name and vpc_id, and the zone is the one found for that VPC.
C4_SnapshotHasZone ==
    (InfoReturned /\ Len(info.services) > 0)
        => /\ {"zone_id", "zone_name", "vpc_id"} \subseteq DOMAIN info.network
           /\ ZoneAssociated(info.network.vpc_id)
           /\ \E z \in Range(hostedZones) :
                 /\ z.Id = info.network.zone_id
                 /\ z.Name = info.network.zone_name
                 /\ info.network.vpc_id \in Range(z.VPCs)

\* a snapshot of two services reached update_services
C4_Witness ==
    /\ pc = "upsert"
    /\ Len(info.services) = 2
    /\ "zone_id" \in DOMAIN info.network

----------------------------------------------------------------------------
(* C5 *)

\* C5: when no hosted zone is associated with the VPC of the first resolved
\* service, the run is ended by the exception of line 149: get_info does not
\* return, the exception leaves update_services and no upsert is sent.
C5_NoZoneFailsRun ==
    (Len(info.services) > 0 /\ ~ZoneAssociated(info.services[1].ec2_instance.VpcId))
        => /\ pc = "raised"
           /\ raisedBy = "TypeError"
           /\ ~InfoReturned
           /\ upserts = <<>>

\* a service resolved in a VPC that none of the existing zones is associated with
C5_Witness ==
    /\ Len(info.services) = 1
    /\ hostedZones # <<>>
    /\ ~ZoneAssociated(info.services[1].ec2_instance.VpcId)
    /\ pc = "raised"

----------------------------------------------------------------------------
(* C6 *)

\* C6: get_zone_for_vpc is called once when a service has resolved and not at
\* all before, with the VPC of the first resolved service; the zone of the
\* snapshot stays the one found for that VPC whatever the later families are.
C6_ZoneLocatedOnce ==
    /\ Len(zoneCalls) = (IF Len(info.services) > 0 THEN 1 ELSE 0)
    /\ Len(zoneCalls) = 1 =>
          zoneCalls[1] = info.services[1].ec2_instance.VpcId
    /\ "vpc_id" \in DOMAIN info.network =>
          /\ Len(info.services) > 0
          /\ info.network.vpc_id = info.services[1].ec2_instance.VpcId
          /\ \E z \in Range(hostedZones) :
                /\ z.Id = info.network.zone_id
                /\ z.Name = info.network.zone_name
                /\ z.VPCs[1] = info.network.vpc_id

\* two services in different VPCs, the second resolved after the zone was found
C6_Witness ==
    /\ Len(info.services) = 2
    /\ info.services[1].ec2_instance.VpcId # info.services[2].ec2_instance.VpcId
    /\ Len(zoneCalls) = 1
    /\ pc = "upsert"

----------------------------------------------------------------------------
(* C7 *)

\* C7: every service of the snapshot comes from a family that ends with
\* "-service" and its name followed by "-service" is its family; list_tasks
\* is only ever called for such families.
C7_OnlySuffixFamilies ==
    /\ \A k \in 1..Len(info.services) :
          /\ EndsWithSuffix(info.services[k].family)
          /\ info.services[k].name \o Suffix = info.services[k].family
    /\ \A f \in Range(taskLookups) : EndsWithSuffix(f)
    /\ "worker-batch" \notin SnapshotFamilies \cup Range(taskLookups)

\* the loop went past "worker-batch" and took a service after it
C7_Witness ==
    /\ pc = "upsert"
    /\ Len(arns) = 3
    /\ arns[1] = "worker-batch"
    /\ Len(info.services) = 2
    /\ info.services[1].name = "cache"

----------------------------------------------------------------------------
(* C8 *)

\* the families of a listing whose chain answers, in listing order
RECURSIVE Answering(_)
Answering(fs) ==
    IF fs = <<>> THEN <<>>
    ELSE (IF EndsWithSuffix(Head(fs)) /\ ChainAnswers(Head(fs))
          THEN <<Head(fs)>> ELSE <<>>) \o Answering(Tail(fs))

\* C8: a "-service" family without a running task is skipped without error:
\* it is not in the snapshot, none of the describe calls is made for it, the
\* loop is past it as soon as list_tasks was called for it, and the snapshot
\* get_info returns holds every family whose chain answers.
C8_NotRunningSkipped ==
    /\ \A k \in 1..Len(arns) :
          (EndsWithSuffix(arns[k]) /\ HasNoTask(arns[k]))
              => /\ arns[k] \notin SnapshotFamilies
                 /\ arns[k] \notin Range(chainLookups)
                 /\ arns[k] \in Range(taskLookups) => i > k
    /\ Len(zoneCalls) <= Len(info.services)
    /\ InfoReturned =>
          [k \in 1..Len(info.services) |-> info.services[k].family] = Answering(arns)

\* a family without task was skipped and a later family is in the snapshot
C8_Witness ==
    /\ pc = "upsert"
    /\ \E k \in 1..Len(arns) :
          /\ EndsWithSuffix(arns[k]) /\ HasNoTask(arns[k])
          /\ \E l \in (k + 1)..Len(arns) : arns[l] \in SnapshotFamilies

----------------------------------------------------------------------------
(* C9 *)

\* the services the filter lets through, among the first n of the snapshot
RECURSIVE Selected(_)
Selected(n) ==
    IF n = 0 THEN <<>>
    ELSE Selected(n - 1) \o
         (IF \/ service_names = {}
             \/ info.services[n].name \in service_names
             \/ info.services[n].family \in service_names
          THEN <<info.services[n]>> ELSE <<>>)

\* the change a service is to be written with
ExpectedChange(service) ==
    [HostedZoneId |-> info.network.zone_id,
     Action |-> "UPSERT",
     ResourceRecordSet |->
         [Name |-> service.name \o "." \o info.network.zone_name,
          Type |-> "A",
          TTL |-> 20,
          ResourceRecords |-> <<service.ec2_instance.PrivateIpAddress>>]]

----------------------------------------------------------------------------
(* C10 *)

\* C10: when update_services has returned and is invoked again with the same
\* cluster, zones and filter, the record sets stay what they were when the
\* first invocation returned, through the second invocation and after it.
C10_SecondRunChangesNothing ==
    prevDone => (info.services = SubSeq(prevInfo.services, 1, Len(info.services))
                 /\ records = prevRecords)

\* the second invocation returned after writing the records of two services again
C10_Witness ==
    /\ run = 2
    /\ prevDone
    /\ pc = "done"
    /\ info = prevInfo
    /\ Len(upserts) = 2
    /\ \E r \in records :
          r.ResourceRecordSet.Name = "cache.internal." /\ r.ResourceRecordSet.TTL = 20

====
